---- MODULE Spec2Model ----
(***************************************************************************)
(* Model of the verification-and-repair loop of the dual-LLM code          *)
(* verification system: DualLLMCodeVerificationSystem.generate_verified_   *)
(* code (system.py), CodeVerifier.verify (verifier.py) and                 *)
(* FailureReportGenerator.generate_report (failure_report.py).             *)
(* The three LLM collaborators (test-case generator, code generator,       *)
(* debugger) are modelled by what they can return.                         *)
(***************************************************************************)
EXTENDS Integers, Sequences, FiniteSets, TLC

VARIABLES
    pc,                 \* position of the run inside generate_verified_code
    max_attempts,       \* self.max_attempts
    test_cases,         \* local test_cases
    history,            \* local history
    attempt,            \* loop variable of the for loop
    code,               \* local code
    test_results,       \* local test_results
    error_msg,          \* local error_msg
    passed,             \* local passed
    debugger_feedback,  \* local debugger_feedback
    previous_feedback,  \* local previous_feedback
    result,             \* the dict the run returns
    last_verification,  \* CodeVerifier.last_verification
    genCalls,           \* log: feedback argument of every generate call
    vfyCalls,           \* log: candidate of every verify call
    dbgCalls,           \* log: arguments of every analyze call
    dbgReturns,         \* log: text every analyze call returned
    harness,            \* a CodeVerifier driven directly: candidate, test
                        \* cases and the log of its verify calls
    generated,          \* log: the test cases as generate_test_cases returned them
    unit,               \* one call of a helper function: its arguments and
                        \* what it returned
    builtins_added      \* the names candidates have added to the builtins
                        \* module of the process

vars == <<pc, max_attempts, test_cases, history, attempt, code, test_results,
          error_msg, passed, debugger_feedback, previous_feedback, result,
          last_verification, genCalls, vfyCalls, dbgCalls, dbgReturns,
          harness, generated, unit, builtins_added>>

(***************************************************************************)
(* Bounds                                                                  *)
(***************************************************************************)
MaxBudget == 3      \* largest max_attempts explored
MaxTests == 2       \* largest generated test suite explored
MaxHarnessTests == 2    \* largest test list given to a directly driven verifier
MaxVerifyCalls == 2     \* verify calls made on a directly driven verifier

(***************************************************************************)
(* Values                                                                  *)
(***************************************************************************)
None == "None"                      \* Python None where a text is expected
ReportDefaultBudget == 3            \* result.get('max_attempts', 3)

NoError == [kind |-> "None", k |-> 0, n |-> 0]
UnknownError == [kind |-> "Unknown", k |-> 0, n |-> 0]

(***************************************************************************)
(* Python values.  A list or tuple holds values in items; an integer holds *)
(* its number in n; a finite float is n + e * 5e-10, so that two floats    *)
(* with the same n differ by less than 1e-9 exactly when their e differ by *)
(* less than Tolerance; an infinite float holds its sign in n; a text that *)
(* spells a number holds the number in n, any other text its identity.     *)
(***************************************************************************)
Tolerance == 2                      \* 1e-9, in units of 5e-10

PyValue(t, k, f, xs) == [tag |-> t, n |-> k, e |-> f, items |-> xs]

PyInt(k) == PyValue("int", k, 0, <<>>)

PyBool(b) == PyValue("bool", IF b THEN 1 ELSE 0, 0, <<>>)

PyFloat(k, f) == PyValue("float", k, f, <<>>)

PyInf(sign) == PyValue("inf", sign, 0, <<>>)

PyStr(k) == PyValue("str", k, 0, <<>>)

PyNumStr(k) == PyValue("numstr", k, 0, <<>>)

PyNone == PyValue("none", 0, 0, <<>>)

PyList(xs) == PyValue("list", 0, 0, xs)

PyTuple(xs) == PyValue("tuple", 0, 0, xs)

\* an object of a class the harness does not know
PyObject == PyValue("object", 0, 0, <<>>)

\* 'actual' of an ERROR outcome: the text "ERROR: ..."
ErrorActual == PyValue("error_text", 0, 0, <<>>)

\* isinstance(v, float)
IsFloat(v) == v.tag \in {"float", "inf"}

\* isinstance(v, (int, float)): bool is a subclass of int
IsNumber(v) == v.tag \in {"int", "bool", "float", "inf"}

\* isinstance(v, int)
IsInt(v) == v.tag \in {"int", "bool"}

\* float(v) returns a number; otherwise it raises ValueError or TypeError
CanFloat(v) == IsNumber(v) \/ v.tag = "numstr"

Abs(x) == IF x < 0 THEN 0 - x ELSE x

\* abs(float(a) - float(b)) < 1e-9; a difference with an infinity is
\* infinite or not a number, and no comparison with it is true
Close(a, b) ==
    /\ a.tag # "inf"
    /\ b.tag # "inf"
    /\ a.n = b.n
    /\ Abs(a.e - b.e) < Tolerance

RECURSIVE PyEq(_, _)
\* Python's a == b
PyEq(a, b) ==
    IF IsNumber(a) /\ IsNumber(b)
    THEN IF a.tag = "inf" \/ b.tag = "inf"
         THEN a.tag = b.tag /\ a.n = b.n
         ELSE a.n = b.n /\ a.e = b.e
    ELSE IF a.tag = b.tag /\ a.tag \in {"list", "tuple"}
    THEN /\ Len(a.items) = Len(b.items)
         /\ \A i \in 1..Len(a.items) : PyEq(a.items[i], b.items[i])
    ELSE a = b

\* The test cases the test generator can produce: input and expected value.
TestCaseSet ==
    {[input |-> PyInt(1), expected |-> PyInt(1)],
     [input |-> PyList(<<>>), expected |-> PyInt(1)]}

RECURSIVE SeqsUpTo(_, _)
SeqsUpTo(S, n) ==
    IF n = 0 THEN {<<>>}
    ELSE LET shorter == SeqsUpTo(S, n - 1)
         IN  shorter \cup {Append(s, x) : s \in {t \in shorter : Len(t) = n - 1}, x \in S}

\* The candidate programs the code generator can return.
Candidates ==
    {"c_syntax", "c_exec", "c_nofunc", "c_ident", "c_zero", "c_raise1",
     "c_exit", "c_exit1", "c_append"}

\* What generate returns when the generation call fails: "# Error: <text>",
\* a program of one comment line.
Placeholder == "c_nofunc"

\* The texts the debug service can return (non-empty LLM output).
ApiFeedback == {"fb_api_1"}

(***************************************************************************)
(* Candidate programs.  A program parses or not; loading it (exec) ends    *)
(* normally, raises an Exception, or raises SystemExit; a loaded program   *)
(* leaves a namespace: the names it bound, in the order of first binding.  *)
(* A callable is described by its signature and by what its body does.     *)
(***************************************************************************)
\* def f(<required>, <optional>=..., *args): <body>; g is the module-level
\* counter of the namespace the function was defined in (its globals)
Fn(required, optional, varargs, body) ==
    [sig_ok |-> TRUE, required |-> required, optional |-> optional,
     varargs |-> varargs, body |-> body, g |-> 0]

\* a builtin for which inspect.signature finds no signature (math.log)
FnNoSignature == [Fn(1, 1, FALSE, "zero") EXCEPT !.sig_ok = FALSE]

NoFn == Fn(0, 0, FALSE, "none")

\* one name of the namespace: how it was bound and whether it is callable
Binding(name, kind, callable, fn) ==
    [name |-> name, kind |-> kind, callable |-> callable, fn |-> fn]

\* exec adds __builtins__ to the namespace before the program runs
Builtins == Binding(<<"_", "_", "b">>, "builtins", FALSE, NoFn)

Def(name, fn) == Binding(name, "def", TRUE, fn)

ImportCallable(name, fn) == Binding(name, "import", TRUE, fn)

ImportModule(name) == Binding(name, "import", FALSE, NoFn)

Assign(name) == Binding(name, "assign", FALSE, NoFn)

Loaded(ns) == [parses |-> TRUE, load |-> "ok", namespace |-> <<Builtins>> \o ns]

\* the program each candidate name stands for
Program(c) ==
    CASE c = "c_syntax" ->      \* def f(:
            [parses |-> FALSE, load |-> "ok", namespace |-> <<>>]
      [] c = "c_exec" ->        \* x = undefined_name
            [parses |-> TRUE, load |-> "raise", namespace |-> <<>>]
      [] c = "c_exit" ->        \* import sys; sys.exit(1)
            [parses |-> TRUE, load |-> "exit", namespace |-> <<>>]
      [] c = "c_nofunc" ->      \* # Error: ...
            Loaded(<<>>)
      [] c = "c_ident" ->       \* def f(x): return x
            Loaded(<<Def(<<"f">>, Fn(1, 0, FALSE, "first"))>>)
      [] c = "c_zero" ->        \* def f(x): return 0
            Loaded(<<Def(<<"f">>, Fn(1, 0, FALSE, "zero"))>>)
      [] c = "c_raise1" ->      \* def f(x): raises ValueError when x == 1
            Loaded(<<Def(<<"f">>, Fn(1, 0, FALSE, "raise1"))>>)
      [] c = "c_exit1" ->       \* def f(x): sys.exit(1) when x == 1
            Loaded(<<ImportModule(<<"s", "y", "s">>),
                     Def(<<"f">>, Fn(1, 0, FALSE, "exit1"))>>)
      [] c = "c_only_private" -> \* X = 1; def _f(x): return x
            Loaded(<<Assign(<<"X">>), Def(<<"_", "f">>, Fn(1, 0, FALSE, "first"))>>)
      [] c = "c_helper_first" -> \* def _h(x): ...; def f(x): return x; def g(x): return 0
            Loaded(<<Def(<<"_", "h">>, Fn(1, 0, FALSE, "zero")),
                     Def(<<"f">>, Fn(1, 0, FALSE, "first")),
                     Def(<<"g">>, Fn(1, 0, FALSE, "zero"))>>)
      [] c = "c_two_defs" ->    \* def g(x): return 0; def f(x): return x
            Loaded(<<Def(<<"g">>, Fn(1, 0, FALSE, "zero")),
                     Def(<<"f">>, Fn(1, 0, FALSE, "first"))>>)
      [] c = "c_import_module" -> \* import math; def f(x): return x
            Loaded(<<ImportModule(<<"m", "a", "t", "h">>),
                     Def(<<"f">>, Fn(1, 0, FALSE, "first"))>>)
      [] c = "c_import_callable" -> \* from math import sqrt; def f(x): return x
            Loaded(<<ImportCallable(<<"s", "q", "r", "t">>,
                                    Fn(1, 0, FALSE, "foreign")),
                     Def(<<"f">>, Fn(1, 0, FALSE, "first"))>>)
      [] c = "c_import_nosig" -> \* from math import log; def f(x): return x
            Loaded(<<ImportCallable(<<"l", "o", "g">>, FnNoSignature),
                     Def(<<"f">>, Fn(1, 0, FALSE, "first"))>>)
      [] c = "c_arity0" ->      \* def f(): return 0
            Loaded(<<Def(<<"f">>, Fn(0, 0, FALSE, "zero"))>>)
      [] c = "c_arity2" ->      \* def f(a, b): return a
            Loaded(<<Def(<<"f">>, Fn(2, 0, FALSE, "first"))>>)
      [] c = "c_arity3" ->      \* def f(a, b, c): return a
            Loaded(<<Def(<<"f">>, Fn(3, 0, FALSE, "first"))>>)
      [] c = "c_default" ->     \* def f(a, b=0): return a
            Loaded(<<Def(<<"f">>, Fn(1, 1, FALSE, "first"))>>)
      [] c = "c_varargs" ->     \* def f(*a): return len(a)
            Loaded(<<Def(<<"f">>, Fn(0, 0, TRUE, "count"))>>)
      [] c = "c_typeerror" ->   \* def f(a, b=0): return a + None
            Loaded(<<Def(<<"f">>, Fn(1, 1, FALSE, "typeerror"))>>)
      [] c = "c_counter" ->     \* n = 0; def f(x): global n; n += 1; return n
            Loaded(<<Assign(<<"n">>), Def(<<"f">>, Fn(1, 0, FALSE, "tick"))>>)
      [] c = "c_append" ->      \* def f(l): l.append(0); return len(l)
            Loaded(<<Def(<<"f">>, Fn(1, 0, FALSE, "append"))>>)
      [] c = "c_adds_helper" -> \* import builtins; builtins.helper = lambda x: x
                                \* def f(x): return 0
            Loaded(<<ImportModule(<<"b", "u", "i", "l", "t", "i", "n", "s">>),
                     Def(<<"f">>, Fn(1, 0, FALSE, "zero"))>>)
      [] c = "c_calls_helper" -> \* def f(x): return helper(x)
            Loaded(<<Def(<<"f">>, Fn(1, 0, FALSE, "helper"))>>)

\* exec(code, namespace) runs the program inside the verifying process: what
\* it assigns to the builtins module stays there when verify has returned
AddsToBuiltins(c) == IF c = "c_adds_helper" THEN {"helper"} ELSE {}

\* the builtins module after verify was called with candidate c: exec is
\* reached when the candidate parses
BuiltinsAfterLoad(c, added) ==
    IF Program(c).parses THEN added \cup AddsToBuiltins(c) ELSE added

\* what the body of a callable does with the arguments it was called with
Body(fn, args) ==
    LET b == fn.body
        ret(v) == [kind |-> "return", value |-> v, args_after |-> args,
                   g_after |-> fn.g]
        fail(k) == [kind |-> k, value |-> ErrorActual, args_after |-> args,
                    g_after |-> fn.g]
    IN  CASE b = "first"  -> ret(args[1])
          [] b = "tick"   ->
                [kind |-> "return", value |-> PyInt(fn.g + 1),
                 args_after |-> args, g_after |-> fn.g + 1]
          [] b = "zero"   -> ret(PyInt(0))
          [] b = "count"  -> ret(PyInt(Len(args)))
          [] b = "foreign" -> ret(PyObject)
          [] b = "raise1" -> IF args[1] = PyInt(1) THEN fail("raise") ELSE ret(args[1])
          [] b = "exit1"  -> IF args[1] = PyInt(1) THEN fail("exit") ELSE ret(args[1])
          [] b = "typeerror" -> fail("TypeError")
          [] b = "helper" ->    \* a global name missing from the namespace
                                \* is looked up in the builtins module
                IF "helper" \in builtins_added THEN ret(args[1]) ELSE fail("raise")
          [] b = "append" ->
                IF args[1].tag = "list"
                THEN [kind |-> "return",
                      value |-> PyInt(Len(args[1].items) + 1),
                      args_after |->
                          [args EXCEPT ![1] = PyList(Append(args[1].items, PyInt(0)))],
                      g_after |-> fn.g]
                ELSE fail("raise")
          [] OTHER -> fail("raise")

\* Python's argument check: the number of positional arguments fits
Accepts(fn, k) ==
    /\ k >= fn.required
    /\ fn.varargs \/ k <= fn.required + fn.optional

\* func(*args): a TypeError before the body runs when the count does not fit
Call(fn, args) ==
    IF Accepts(fn, Len(args))
    THEN [ran |-> TRUE] @@ Body(fn, args)
    ELSE [ran |-> FALSE, kind |-> "TypeError", value |-> ErrorActual,
          args_after |-> args, g_after |-> fn.g]

(***************************************************************************)
(* CodeVerifier                                                            *)
(***************************************************************************)
\* ast.parse(code) succeeds
Parses(c) == Program(c).parses

\* exec(code, namespace) raises an Exception, which verify catches
Executes(c) == Program(c).load # "raise"

\* exec(code, namespace) raises SystemExit or KeyboardInterrupt, which
\* "except Exception" does not catch
ExitsOnLoad(c) == Program(c).load = "exit"

\* name.startswith('_')
StartsWithUnderscore(name) == Len(name) > 0 /\ name[1] = "_"

\* callable(obj) and not name.startswith('_')
QualifiesAnyName(b) == b.callable

Qualifies(b) == b.callable /\ ~StartsWithUnderscore(b.name)

\* _find_function: position in the namespace of the first name that
\* qualifies, 0 when there is none (None)
find_function(ns) ==
    IF \E i \in 1..Len(ns) : Qualifies(ns[i])
    THEN CHOOSE i \in 1..Len(ns) :
            /\ Qualifies(ns[i])
            /\ \A j \in 1..(i - 1) : ~Qualifies(ns[j])
    ELSE 0

\* _find_function returned a name
HasFunction(c) == find_function(Program(c).namespace) # 0

\* namespace[func_name]
Lookup(ns) == ns[find_function(ns)]

\* func = namespace[func_name]
EntryBinding(c) == Lookup(Program(c).namespace)

\* len(inspect.signature(func).parameters)
num_params(fn) == fn.required + fn.optional + (IF fn.varargs THEN 1 ELSE 0)

\* The calls _run_single_test makes for one input, as the shapes it tries in
\* order: "whole" is func(inputs), "unpack" is func(*inputs), "none" is
\* func(); a second shape is tried only after a TypeError of the first.
EmptyListPlan(A) == IF A = 1 THEN <<"whole">> ELSE <<"none">>

OneParamPlanUnpacks == <<"unpack">>

OneParamPlan == <<"whole">>

MatchingArityPlanWhole == <<"whole">>

MatchingArityPlan == <<"unpack">>

AmbiguousPlanNoFallback == <<"unpack">>

AmbiguousPlan == <<"unpack", "whole">>

TuplePlanWithFallback == <<"unpack", "whole">>

TuplePlan == <<"unpack">>

ScalarPlan == <<"whole">>

BindPlan(A, inputs) ==
    IF inputs.tag = "list"
    THEN IF Len(inputs.items) = 0 THEN EmptyListPlan(A)
         ELSE IF A = 1 THEN OneParamPlan
         ELSE IF A = Len(inputs.items) THEN MatchingArityPlan
         ELSE AmbiguousPlan
    ELSE IF inputs.tag = "tuple" THEN TuplePlan
    ELSE ScalarPlan

\* the positional arguments of a call of the given shape
ArgsFor(shape, inputs) ==
    CASE shape = "whole"  -> <<inputs>>
      [] shape = "unpack" -> inputs.items
      [] shape = "none"   -> <<>>

\* the input object after the call, which received it or its items
InputAfter(shape, inputs, args_after) ==
    CASE shape = "whole"  -> args_after[1]
      [] shape = "unpack" -> [inputs EXCEPT !.items = args_after]
      [] shape = "none"   -> inputs

\* the call in the except TypeError branch, after a first call with args1
\* returned r1 by raising TypeError
FallbackResult(plan, args1, after1, r2) ==
    [calls |-> <<args1, ArgsFor(plan[2], after1)>>, shapes |-> plan,
     input_after |-> InputAfter(plan[2], after1, r2.args_after),
     res |-> r2, g_after |-> r2.g_after]

FallbackCall(fn, plan, args1, after1) ==
    FallbackResult(plan, args1, after1, Call(fn, ArgsFor(plan[2], after1)))

\* the function object once a call has left the module globals at g
WithGlobals(fn, g) == [fn EXCEPT !.g = g]

\* the first call of the plan returned r1
FirstResult(fn, inputs, plan, r1) ==
    IF Len(plan) = 2 /\ r1.kind = "TypeError"
    THEN FallbackCall(WithGlobals(fn, r1.g_after), plan,
                      ArgsFor(plan[1], inputs),
                      InputAfter(plan[1], inputs, r1.args_after))
    ELSE [calls |-> <<ArgsFor(plan[1], inputs)>>, shapes |-> <<plan[1]>>,
          input_after |-> InputAfter(plan[1], inputs, r1.args_after),
          res |-> r1, g_after |-> r1.g_after]

FirstCall(fn, inputs, plan) ==
    FirstResult(fn, inputs, plan, Call(fn, ArgsFor(plan[1], inputs)))

\* lines 106-143: the calls made for one input, the result of the last one
\* and the input object afterwards
BindCalls(fn, inputs) ==
    IF ~fn.sig_ok
    THEN [calls |-> <<>>, shapes |-> <<>>, input_after |-> inputs,
          res |-> [ran |-> FALSE, kind |-> "raise", value |-> ErrorActual,
                   args_after |-> <<>>, g_after |-> fn.g],
          g_after |-> fn.g]
    ELSE FirstCall(fn, inputs, BindPlan(num_params(fn), inputs))

\* the calls _run_single_test makes for one test case with function func
TestBinding(func, test) == BindCalls(func, test.input)

\* The tests of one verify call share the function object and so the module
\* globals: func as test i finds it, after tests 1..i-1 ran on fn0.
RECURSIVE FuncBefore(_, _, _)
FuncBefore(fn0, tcs, i) ==
    IF i = 1 THEN fn0
    ELSE WithGlobals(fn0,
            TestBinding(FuncBefore(fn0, tcs, i - 1), tcs[i - 1]).g_after)

\* Calling the entry function on a test input: it returns a value, raises an
\* Exception, or raises SystemExit (exits).
CallResult(r) ==
    [raised |-> r.kind \in {"raise", "TypeError"},
     exits  |-> r.kind = "exit",
     value  |-> r.value]

Invoke(func, inputs) == CallResult(BindCalls(func, inputs).res)

\* what _values_match does: it returns a bool or raises
Matched(b) == [raises |-> FALSE, value |-> b]

MatchRaises == [raises |-> TRUE, value |-> FALSE]

RECURSIVE ElementsMatch(_, _, _)
\* all(... for a, e in zip(actual, expected)): elements are compared in order
\* up to the first pair that does not match; float(a) raises when a is no
\* number and no text spelling one
ElementsMatch(as, es, i) ==
    IF i > Len(es) THEN Matched(TRUE)
    ELSE IF IsFloat(es[i])
    THEN IF ~CanFloat(as[i]) THEN MatchRaises
         ELSE IF Close(as[i], es[i]) THEN ElementsMatch(as, es, i + 1)
         ELSE Matched(FALSE)
    ELSE IF PyEq(as[i], es[i]) THEN ElementsMatch(as, es, i + 1)
    ELSE Matched(FALSE)

\* _values_match
values_match(actual, expected) ==
    IF IsFloat(expected) /\ IsNumber(actual)
    THEN Matched(Close(actual, expected))
    ELSE IF expected.tag = "list" /\ actual.tag = "list"
    THEN IF Len(expected.items) # Len(actual.items) THEN Matched(FALSE)
         ELSE ElementsMatch(actual.items, expected.items, 1)
    ELSE Matched(PyEq(actual, expected))

\* the status of a test whose call returned: the comparison is inside the
\* try block, so a comparison that raises makes the outcome an ERROR
StatusOf(m) == IF m.raises THEN "ERROR" ELSE IF m.value THEN "PASS" ELSE "FAIL"

\* _run_single_test: the outcome dict; its 'input' is the test's input object
Outcome(test, test_num, r, inp) ==
    IF r.raised
    THEN [test_num |-> test_num, input |-> inp,
          expected |-> test.expected, actual |-> ErrorActual,
          status |-> "ERROR"]
    ELSE IF values_match(r.value, test.expected).raises
    THEN [test_num |-> test_num, input |-> inp,
          expected |-> test.expected, actual |-> ErrorActual,
          status |-> "ERROR"]
    ELSE [test_num |-> test_num, input |-> inp,
          expected |-> test.expected, actual |-> r.value,
          status |-> StatusOf(values_match(r.value, test.expected))]

OutcomeOf(test, test_num, b) ==
    Outcome(test, test_num, CallResult(b.res), b.input_after)

run_single_test(func, test, test_num) ==
    OutcomeOf(test, test_num, TestBinding(func, test))

\* the loop of verify: all_passed is cleared by every non-PASS status
AllPassedFailOnly(results) ==
    \A i \in 1..Len(results) : results[i].status # "FAIL"

AllPassed(results) ==
    \A i \in 1..Len(results) : results[i].status = "PASS"

\* failed_count = len([r for r in test_results if r['status'] != 'PASS'])
CountFailOnly(results) ==
    Cardinality({i \in 1..Len(results) : results[i].status = "FAIL"})

CountNotPass(results) ==
    Cardinality({i \in 1..Len(results) : results[i].status # "PASS"})

\* verify is left by an exception that no handler of verify catches
VerifyAborts(c, tcs) ==
    /\ Parses(c)
    /\ \/ ExitsOnLoad(c)
       \/ /\ Executes(c)
          /\ HasFunction(c)
          /\ \E i \in 1..Len(tcs) :
                Invoke(FuncBefore(EntryBinding(c).fn, tcs, i), tcs[i].input).exits

\* return False, [], error_msg: the outcome list of a harness-level failure
HarnessFailureResultsPerTest(tcs) ==
    [i \in 1..Len(tcs) |->
        [test_num |-> i, input |-> tcs[i].input, expected |-> tcs[i].expected,
         actual |-> ErrorActual, status |-> "ERROR"]]

HarnessFailureResults(tcs) == <<>>

\* what verify returns after a harness-level failure of the given kind
HarnessFailurePassed(kind, tcs) ==
    [passed |-> TRUE, results |-> HarnessFailureResults(tcs),
     error |-> [kind |-> kind, k |-> 0, n |-> 0], stored |-> FALSE,
     tests |-> tcs, calls |-> [i \in 1..Len(tcs) |-> <<>>], entry |-> <<>>]

HarnessFailure(kind, tcs) ==
    [passed |-> FALSE, results |-> HarnessFailureResults(tcs),
     error |-> [kind |-> kind, k |-> 0, n |-> 0], stored |-> FALSE,
     tests |-> tcs, calls |-> [i \in 1..Len(tcs) |-> <<>>], entry |-> <<>>]

\* lines 75-92: the return after the test loop; the test cases hold the input
\* objects as the calls left them
TestsReturn(results, tcs, entry) ==
    [passed |-> AllPassed(results),
     results |-> results,
     error |-> IF AllPassed(results)
               THEN [kind |-> "AllPassed", k |-> 0, n |-> Len(tcs)]
               ELSE [kind |-> "TestsFailed", k |-> CountNotPass(results),
                     n |-> Len(tcs)],
     stored |-> TRUE,
     tests |-> [i \in 1..Len(tcs) |-> [tcs[i] EXCEPT !.input = results[i].input]],
     calls |-> [i \in 1..Len(tcs) |->
                  TestBinding(FuncBefore(entry.fn, tcs, i), tcs[i]).calls],
     entry |-> entry.name]

\* verify: (all_passed, test_results, error_message), with the test cases as
\* the call leaves them, the calls made per test and the entry function name
verify(c, tcs) ==
    IF ~Parses(c) THEN HarnessFailure("Syntax", tcs)
    ELSE IF ~Executes(c) THEN HarnessFailure("Execution", tcs)
    ELSE IF ~HasFunction(c) THEN HarnessFailure("NoFunction", tcs)
    ELSE TestsReturn([i \in 1..Len(tcs) |->
                        run_single_test(FuncBefore(EntryBinding(c).fn, tcs, i),
                                        tcs[i], i)],
                     tcs, EntryBinding(c))

(***************************************************************************)
(* DebuggerAgent                                                           *)
(***************************************************************************)
\* The phrases _create_fallback_feedback looks for in the error message; an
\* error message is described by the set of these phrases it contains.
Phrases ==
    {"No function found", "Syntax Error", "SyntaxError", "not defined",
     "ImportError"}

\* the phrases in the error message verify returns with each kind of failure
\* (the load failure of candidate c_exec is a NameError)
PhrasesOf(err) ==
    CASE err.kind = "NoFunction" -> {"No function found"}
      [] err.kind = "Syntax"     -> {"Syntax Error"}
      [] err.kind = "Execution"  -> {"not defined"}
      [] OTHER                   -> {}

\* the if/elif chain of _create_fallback_feedback
ClassifySyntaxFirst(phrases) ==
    IF {"Syntax Error", "SyntaxError"} \cap phrases # {} THEN "syntax"
    ELSE IF "No function found" \in phrases THEN "no_function"
    ELSE IF {"not defined", "ImportError"} \cap phrases # {} THEN "undefined"
    ELSE "tests"

Classify(phrases) ==
    IF "No function found" \in phrases THEN "no_function"
    ELSE IF {"Syntax Error", "SyntaxError"} \cap phrases # {} THEN "syntax"
    ELSE IF {"not defined", "ImportError"} \cap phrases # {} THEN "undefined"
    ELSE "tests"

ShownFailures == 3                  \* test_failures[:3]

\* test_failures[:3]
FirstFailures(failures) ==
    SubSeq(failures, 1, IF Len(failures) < ShownFailures
                        THEN Len(failures) ELSE ShownFailures)

\* what the text shows of one failure
ShownOf(failure) ==
    [test_num |-> failure.test_num, input |-> failure.input,
     expected |-> failure.expected, actual |-> failure.actual]

\* the text of the last branch: the number of failures and the first three
TestsText(failures) ==
    [class |-> "tests", failed_count |-> Len(failures),
     shown |-> [i \in 1..Len(FirstFailures(failures)) |->
                  ShownOf(FirstFailures(failures)[i])]]

\* the text of each of the first three branches is fixed
ClassText(class) == [class |-> class, failed_count |-> 0, shown |-> <<>>]

\* _create_fallback_feedback: the text built from the error message and the
\* failing outcomes
fallback_text(phrases, failures) ==
    IF Classify(phrases) = "tests" THEN TestsText(failures)
    ELSE ClassText(Classify(phrases))

\* In a run the local text is named by its branch.
FeedbackName(class) ==
    CASE class = "no_function" -> "fb_local_no_function"
      [] class = "syntax"      -> "fb_local_syntax"
      [] class = "undefined"   -> "fb_local_undefined"
      [] class = "tests"       -> "fb_local_tests"

\* _create_fallback_feedback: the local text, chosen from the error summary
create_fallback_feedback(err) == FeedbackName(Classify(PhrasesOf(err)))

\* What the chat-completion call of analyze does: it raises, or returns a
\* response that lacks a part, holds no text, or holds a text.
Responses ==
    {"raises", "raises_attribute_error", "none", "no_choices_attribute",
     "empty_choices", "no_message", "no_content", "content_none",
     "empty_content", "blank_content", "text"}

\* analyze: the text of the response, or the local text
analyze(response, phrases, failures) ==
    IF response = "text"
    THEN [class |-> "api", failed_count |-> 0, shown |-> <<>>]
    ELSE fallback_text(phrases, failures)

\* message.content of a response that holds no text
EmptyText == ""

\* what the debug service can put into message.content
ServiceContents == ApiFeedback \cup {EmptyText}

\* if not feedback or len(feedback.strip()) == 0: the local text is used
IsUsableAlways(content) == TRUE

IsUsable(content) == content # EmptyText

\* analyze: the text of the debug service, or the local fallback when the
\* call failed or its content is not usable
AnalyzeReturns(err) ==
    {IF IsUsable(c) THEN c ELSE create_fallback_feedback(err) :
        c \in ServiceContents}
    \cup {create_fallback_feedback(err)}

\* generate: "if feedback:" chooses the fix prompt, else the initial prompt
PromptFor(feedback) ==
    IF feedback # None /\ feedback # EmptyText THEN "fix" ELSE "initial"

(***************************************************************************)
(* FailureReportGenerator                                                  *)
(***************************************************************************)
\* dict.get(key, default)
Get(d, key, default) == IF key \in DOMAIN d THEN d[key] ELSE default

CountStatus(results, st) ==
    Cardinality({i \in 1..Len(results) : results[i].status = st})

CodeBudget == 1500                  \* if len(code) > 1500
DetailLimit == 5                    \* failures[:5]

\* len(code): the candidate programs are one or two short lines; three
\* further programs are as long as their names say
CodeLength(c) ==
    CASE c = "c_chars_1499" -> 1499
      [] c = "c_chars_1500" -> 1500
      [] c = "c_chars_1501" -> 1501
      [] c = "c_chars_3000" -> 3000
      [] c = "No code generated" -> 17
      [] OTHER -> 18

\* len(code) > 1500
TruncatesFromBudget(n) == n >= CodeBudget

Truncates(n) == n > CodeBudget

\* lines 157-163: the code as the report shows it: its first chars
\* characters, followed by the truncation marker or not
ShownCode(c) ==
    [code |-> c,
     chars |-> IF Truncates(CodeLength(c)) THEN CodeBudget ELSE CodeLength(c),
     marker |-> Truncates(CodeLength(c))]

\* failures = [t for t in test_results if t['status'] != 'PASS']
NonPass(results) == SelectSeq(results, LAMBDA t : t.status # "PASS")

\* failures[:5]
FirstDetailsAll(failures) == failures

FirstDetails(failures) ==
    SubSeq(failures, 1, IF Len(failures) < DetailLimit
                        THEN Len(failures) ELSE DetailLimit)

\* what the report shows of one failing outcome
DetailOf(t) ==
    [test_num |-> t.test_num, input |-> t.input, expected |-> t.expected,
     actual |-> t.actual]

\* lines 132-147: the details of the first five outcomes that did not pass
Details(results) ==
    [i \in 1..Len(FirstDetails(NonPass(results))) |->
        DetailOf(FirstDetails(NonPass(results))[i])]

\* "... and N more failures": N, or 0 when the line is not written
MoreFailures(results) ==
    IF Len(NonPass(results)) > DetailLimit
    THEN Len(NonPass(results)) - DetailLimit ELSE 0

\* generate_report raises: result['attempts'] is missing (KeyError), the
\* error text is None (re.findall) or the code is None (len)
ReportRaises(r) ==
    \/ "attempts" \notin DOMAIN r
    \/ Get(r, "error", UnknownError) = NoError
    \/ Get(r, "code", "No code generated") = None

\* generate_report: the lines of the report that depend on the result; the
\* counts are written when test_results is not empty
generate_report(r) ==
    [raises        |-> ReportRaises(r),
     attempts_made |-> Get(r, "attempts", 0),
     budget        |-> Get(r, "max_attempts", ReportDefaultBudget),
     error         |-> Get(r, "error", UnknownError),
     has_counts    |-> Get(r, "test_results", <<>>) # <<>>,
     total         |-> Len(Get(r, "test_results", <<>>)),
     n_passed      |-> CountStatus(Get(r, "test_results", <<>>), "PASS"),
     n_failed      |-> CountStatus(Get(r, "test_results", <<>>), "FAIL"),
     n_errors      |-> CountStatus(Get(r, "test_results", <<>>), "ERROR"),
     details       |-> Details(Get(r, "test_results", <<>>)),
     more          |-> MoreFailures(Get(r, "test_results", <<>>)),
     shown_code    |-> ShownCode(Get(r, "code", "No code generated")),
     code          |-> Get(r, "code", "No code generated")]

(***************************************************************************)
(* DualLLMCodeVerificationSystem.generate_verified_code                    *)
(***************************************************************************)
\* the guard of the early return: not test_cases or len(test_cases) == 0
NoTestCasesNeverEmpty(tcs) == FALSE

NoTestCases(tcs) == Len(tcs) = 0

\* the dict returned when no test case was generated
EmptyTestsResult(h) ==
    [success |-> FALSE,
     message |-> <<"Failed to generate test cases", 0>>,
     code    |-> None,
     history |-> h]

\* the feedback keyword argument of code_generator.generate
GenerateFeedbackArgDropped(dfb) == None

GenerateFeedbackArg(dfb) == dfb

\* the record appended to history
AttemptRecordZeroBased(a, c, p, tr, err) ==
    [attempt |-> a - 1, code |-> c, passed |-> p, test_results |-> tr,
     error |-> IF ~p THEN err ELSE NoError]

AttemptRecord(a, c, p, tr, err) ==
    [attempt |-> a, code |-> c, passed |-> p, test_results |-> tr,
     error |-> IF ~p THEN err ELSE NoError]

\* history.append(...): the record is appended at every attempt
RecordAttemptFailuresOnly(h, rec) == IF rec.passed THEN h ELSE Append(h, rec)

RecordAttempt(h, rec) == Append(h, rec)

\* if passed: return {...}
ReturnsOnPassLastOnly(p, a, m) == p /\ a = m

ReturnsOnPass(p, a, m) == p

\* the dict returned by a passing attempt
SuccessResult(c, a, tcs, tr, h) ==
    [success      |-> TRUE,
     code         |-> c,
     attempts     |-> a,
     test_cases   |-> tcs,
     test_results |-> tr,
     message      |-> <<"All tests passed", Len(tcs)>>,
     history      |-> h]

\* if attempt < self.max_attempts: the debugger is consulted
ShouldDebugInclusive(a, m) == a <= m

ShouldDebug(a, m) == a < m

\* failed_tests = [t for t in test_results if t['status'] != 'PASS']
NotPass(t) == t.status # "PASS"

failed_tests_fail_only(tr) == SelectSeq(tr, LAMBDA t : t.status = "FAIL")

failed_tests(tr) == SelectSeq(tr, NotPass)

\* previous_feedback if attempt > 1 else None
PriorFeedbackArgAlways(a, pfb) == None

\* line 45: history = [], whatever an earlier run left
StartHistory(h) == <<>>

PriorFeedbackArg(a, pfb) == IF a > 1 THEN pfb ELSE None

\* previous_feedback = debugger_feedback
SavePreviousFeedbackSkipped(pfb, dfb) == pfb

SavePreviousFeedback(pfb, dfb) == dfb

\* the dict built after the loop, before the report is attached
FailureResultNoCode(c, m, tcs, tr, err, h) ==
    [success      |-> FALSE,
     code         |-> None,
     attempts     |-> m,
     max_attempts |-> m,
     test_cases   |-> tcs,
     test_results |-> tr,
     message      |-> <<"Failed after attempts", m>>,
     error        |-> err,
     history      |-> h]

FailureResult(c, m, tcs, tr, err, h) ==
    [success      |-> FALSE,
     code         |-> c,
     attempts     |-> m,
     max_attempts |-> m,
     test_cases   |-> tcs,
     test_results |-> tr,
     message      |-> <<"Failed after attempts", m>>,
     error        |-> err,
     history      |-> h]

\* result['debug_report'] = debug_report
WithReportDropped(r, rep) == r

WithReport(r, rep) ==
    [key \in DOMAIN r \cup {"debug_report"} |->
        IF key = "debug_report" THEN rep ELSE r[key]]

Pending == [pending |-> TRUE]

\* no verifier is driven directly during a run of the repair loop
HarnessIdle == [phase |-> "idle", cand |-> None, tests |-> <<>>, log |-> <<>>]

\* no helper function is called on its own
UnitIdle == [op |-> "idle"]

Init ==
    /\ harness = HarnessIdle
    /\ unit = UnitIdle
    /\ generated = <<>>
    /\ pc = "start"
    /\ max_attempts \in 1..MaxBudget
    /\ test_cases = <<>>
    /\ history = <<>>
    /\ attempt = 0
    /\ code = None
    /\ test_results = <<>>
    /\ error_msg = UnknownError
    /\ passed = FALSE
    /\ debugger_feedback = None
    /\ previous_feedback = None
    /\ result = Pending
    /\ last_verification = [passed |-> FALSE, results |-> <<>>, set |-> FALSE]
    /\ genCalls = <<>>
    /\ vfyCalls = <<>>
    /\ dbgCalls = <<>>
    /\ dbgReturns = <<>>
    /\ builtins_added = {}

\* lines 44-74: history is cleared, the test cases are requested, and the run
\* either returns at once or enters the loop with attempt = 1
GenerateTests ==
    /\ pc = "start"
    /\ UNCHANGED builtins_added
    /\ UNCHANGED <<harness, unit>>
    /\ \E tcs \in SeqsUpTo(TestCaseSet, MaxTests) :
          /\ test_cases' = tcs
          /\ generated' = tcs
          /\ history' = StartHistory(history)
          /\ IF NoTestCases(tcs)
             THEN /\ result' = EmptyTestsResult(history')
                  /\ pc' = "done"
                  /\ UNCHANGED <<attempt, code, test_results, error_msg,
                                 debugger_feedback, previous_feedback>>
             ELSE /\ code' = None
                  /\ test_results' = <<>>
                  /\ error_msg' = UnknownError
                  /\ debugger_feedback' = None
                  /\ previous_feedback' = None
                  /\ IF 1 <= max_attempts
                     THEN attempt' = 1 /\ pc' = "generate"
                     ELSE attempt' = attempt /\ pc' = "exhausted"
                  /\ UNCHANGED result
    /\ UNCHANGED <<max_attempts, passed, last_verification, genCalls, vfyCalls,
                   dbgCalls, dbgReturns>>

\* line 83: code = self.code_generator.generate(problem, feedback=...)
Generate ==
    /\ pc = "generate"
    /\ UNCHANGED builtins_added
    /\ UNCHANGED <<harness, unit, generated>>
    /\ \E c \in Candidates : code' = c
    /\ genCalls' = Append(genCalls, GenerateFeedbackArg(debugger_feedback))
    /\ pc' = "verify"
    /\ UNCHANGED <<max_attempts, test_cases, history, attempt, test_results,
                   error_msg, passed, debugger_feedback, previous_feedback,
                   result, last_verification, vfyCalls, dbgCalls, dbgReturns>>

\* the end of one loop iteration: the next attempt, or the loop is over
LoopNext ==
    IF attempt < max_attempts
    THEN attempt' = attempt + 1 /\ pc' = "generate"
    ELSE attempt' = attempt /\ pc' = "exhausted"

\* line 92, when verify does not return: the exception leaves
\* generate_verified_code as well, which has no handler
VerifyAbort ==
    /\ pc = "verify"
    /\ builtins_added' = BuiltinsAfterLoad(code, builtins_added)
    /\ UNCHANGED <<harness, unit, generated>>
    /\ VerifyAborts(code, test_cases)
    /\ vfyCalls' = Append(vfyCalls, code)
    /\ pc' = "aborted"
    /\ UNCHANGED <<max_attempts, test_cases, history, attempt, code,
                   test_results, error_msg, passed, debugger_feedback,
                   previous_feedback, result, last_verification, genCalls,
                   dbgCalls, dbgReturns>>

\* 'actual' of the outcome is the very object the test case holds as input:
\* the entry function of candidate c returned the list it was given
ReturnsItsArgument(c, o) ==
    /\ o.status # "ERROR"
    /\ o.input.tag = "list"
    /\ EntryBinding(c).fn.body = "first"
    /\ num_params(EntryBinding(c).fn) = 1

\* An outcome dict holds the input object of its test case, not a copy
\* (verifier.py:150): it shows whatever the object holds now.
SharedOutcome(c, o, tcs) ==
    [o EXCEPT !.input = tcs[o.test_num].input,
              !.actual = IF ReturnsItsArgument(c, o)
                         THEN tcs[o.test_num].input ELSE @]

\* the attempt records already in history, seen after the test inputs changed
SharedHistory(h, tcs) ==
    [k \in 1..Len(h) |->
        [h[k] EXCEPT !.test_results =
            [i \in 1..Len(h[k].test_results) |->
                SharedOutcome(h[k].code, h[k].test_results[i], tcs)]]]

\* the outcome dicts handed to earlier analyze calls are those of history
SharedCalls(calls, tcs) ==
    [k \in 1..Len(calls) |->
        [calls[k] EXCEPT !.test_failures =
            [i \in 1..Len(calls[k].test_failures) |->
                SharedOutcome(calls[k].code, calls[k].test_failures[i], tcs)]]]

\* lines 92-121: verify returned v; record the attempt, return on success
VerifyReturns(v) ==
    /\ dbgCalls' = SharedCalls(dbgCalls, v.tests)
    /\ passed' = v.passed
    /\ test_results' = v.results
    /\ error_msg' = v.error
    /\ test_cases' = v.tests
    /\ last_verification' =
          IF v.stored
          THEN [passed |-> v.passed, results |-> v.results, set |-> TRUE]
          ELSE last_verification
    /\ vfyCalls' = Append(vfyCalls, code)
    /\ history' = RecordAttempt(SharedHistory(history, v.tests),
                      AttemptRecord(attempt, code, v.passed, v.results, v.error))
    /\ IF ReturnsOnPass(v.passed, attempt, max_attempts)
       THEN /\ result' = SuccessResult(code, attempt, v.tests,
                                       v.results, history')
            /\ pc' = "done"
            /\ UNCHANGED attempt
       ELSE /\ UNCHANGED result
            /\ IF ShouldDebug(attempt, max_attempts)
               THEN pc' = "debug" /\ UNCHANGED attempt
               ELSE LoopNext

\* lines 92-121: verify, record the attempt, return on success
Verify ==
    /\ pc = "verify"
    /\ builtins_added' = BuiltinsAfterLoad(code, builtins_added)
    /\ UNCHANGED <<harness, unit, generated>>
    /\ ~VerifyAborts(code, test_cases)
    /\ VerifyReturns(verify(code, test_cases))
    /\ UNCHANGED <<max_attempts, code, debugger_feedback,
                   previous_feedback, genCalls, dbgReturns>>

\* lines 122-137: the debugger analyses the failed attempt
Debug ==
    /\ pc = "debug"
    /\ UNCHANGED builtins_added
    /\ UNCHANGED <<harness, unit, generated>>
    /\ \E fb \in AnalyzeReturns(error_msg) :
          /\ dbgCalls' = Append(dbgCalls,
                [code |-> code,
                 test_failures |-> failed_tests(test_results),
                 error_msg |-> error_msg,
                 iteration |-> attempt,
                 previous_feedback |-> PriorFeedbackArg(attempt, previous_feedback)])
          /\ dbgReturns' = Append(dbgReturns, fb)
          /\ debugger_feedback' = fb
          /\ previous_feedback' = SavePreviousFeedback(previous_feedback, fb)
    /\ LoopNext
    /\ UNCHANGED <<max_attempts, test_cases, history, code, test_results,
                   error_msg, passed, result, last_verification, genCalls,
                   vfyCalls>>

\* lines 157-160: generate_report returns and the result is returned with
\* the report, or generate_report raises and the run ends with its exception
ReportReturns(r) ==
    IF generate_report(r).raises
    THEN pc' = "raised" /\ result' = result
    ELSE pc' = "done" /\ result' = WithReport(r, generate_report(r))

\* lines 139-160: the budget is used up; the result and its report are built
Exhausted ==
    /\ pc = "exhausted"
    /\ UNCHANGED builtins_added
    /\ UNCHANGED <<harness, unit, generated>>
    /\ ReportReturns(FailureResult(code, max_attempts, test_cases,
                                   test_results, error_msg, history))
    /\ UNCHANGED <<max_attempts, test_cases, history, attempt, code,
                   test_results, error_msg, passed, debugger_feedback,
                   previous_feedback, last_verification, genCalls, vfyCalls,
                   dbgCalls, dbgReturns>>

Next ==
    GenerateTests \/ Generate \/ Verify \/ VerifyAbort \/ Debug \/ Exhausted

Spec == Init /\ [][Next]_vars

(***************************************************************************)
(* Several runs on one system object: when a run has returned,             *)
(* generate_verified_code is called again.  The attributes of the system   *)
(* object and of its verifier stay as the run left them; the variables of  *)
(* the model that stand for locals keep their last values until the new    *)
(* run assigns them; the logs start again with every run.                  *)
(***************************************************************************)
MaxRunBudget == 2

\* app.py lines 266-283: max_attempts is set and the next run is started
CallAgain ==
    /\ pc = "done"
    /\ UNCHANGED builtins_added
    /\ pc' = "start"
    /\ max_attempts' \in 1..MaxRunBudget
    /\ result' = Pending
    /\ genCalls' = <<>>
    /\ vfyCalls' = <<>>
    /\ dbgCalls' = <<>>
    /\ dbgReturns' = <<>>
    /\ generated' = <<>>
    /\ UNCHANGED <<test_cases, history, attempt, code, test_results, error_msg,
                   passed, debugger_feedback, previous_feedback,
                   last_verification, harness, unit>>

InitRuns ==
    /\ harness = HarnessIdle
    /\ unit = UnitIdle
    /\ generated = <<>>
    /\ pc = "start"
    /\ max_attempts \in 1..MaxRunBudget
    /\ test_cases = <<>>
    /\ history = <<>>
    /\ attempt = 0
    /\ code = None
    /\ test_results = <<>>
    /\ error_msg = UnknownError
    /\ passed = FALSE
    /\ debugger_feedback = None
    /\ previous_feedback = None
    /\ result = Pending
    /\ last_verification = [passed |-> FALSE, results |-> <<>>, set |-> FALSE]
    /\ genCalls = <<>>
    /\ vfyCalls = <<>>
    /\ dbgCalls = <<>>
    /\ dbgReturns = <<>>
    /\ builtins_added = {}

\* The candidates the code generator returns in runs that follow one
\* another: among them those that write or read the builtins module.
RunCandidates ==
    {"c_syntax", "c_ident", "c_zero", "c_exit", "c_adds_helper", "c_calls_helper"}

\* line 83: code = self.code_generator.generate(problem, feedback=...)
GenerateInRuns ==
    /\ pc = "generate"
    /\ UNCHANGED <<harness, unit, generated, builtins_added>>
    /\ \E c \in RunCandidates : code' = c
    /\ genCalls' = Append(genCalls, GenerateFeedbackArg(debugger_feedback))
    /\ pc' = "verify"
    /\ UNCHANGED <<max_attempts, test_cases, history, attempt, test_results,
                   error_msg, passed, debugger_feedback, previous_feedback,
                   result, last_verification, vfyCalls, dbgCalls, dbgReturns>>

NextRuns ==
    \/ GenerateTests
    \/ GenerateInRuns
    \/ Verify
    \/ VerifyAbort
    \/ Debug
    \/ Exhausted
    \/ CallAgain

SpecRuns == InitRuns /\ [][NextRuns]_vars

(***************************************************************************)
(* A CodeVerifier driven directly: verify is called up to MaxVerifyCalls   *)
(* times with one candidate and one list of test cases (the same list      *)
(* object in every call).                                                  *)
(***************************************************************************)
HarnessCandidates ==
    Candidates \cup
    {"c_only_private", "c_helper_first", "c_two_defs", "c_import_module",
     "c_import_callable", "c_import_nosig", "c_arity0", "c_arity2",
     "c_arity3", "c_default", "c_varargs", "c_typeerror", "c_counter"}

\* test inputs: 0, 1, [], [1], [[1], 0], [1, 0, 1], (1,), (1, 0)
HarnessInputs ==
    {PyInt(0), PyInt(1), PyList(<<>>), PyList(<<PyInt(1)>>),
     PyList(<<PyList(<<PyInt(1)>>), PyInt(0)>>),
     PyList(<<PyInt(1), PyInt(0), PyInt(1)>>),
     PyTuple(<<PyInt(1)>>), PyTuple(<<PyInt(1), PyInt(0)>>)}

HarnessExpected == {PyInt(1), PyList(<<PyInt(1)>>)}

HarnessTestCases == [input : HarnessInputs, expected : HarnessExpected]

runVars == <<pc, max_attempts, test_cases, history, attempt, code, test_results,
             error_msg, passed, debugger_feedback, previous_feedback, result,
             genCalls, vfyCalls, dbgCalls, dbgReturns, generated, unit>>

InitHarness ==
    /\ harness \in [phase : {"ready"}, cand : HarnessCandidates,
                     tests : SeqsUpTo(HarnessTestCases, MaxHarnessTests),
                     log : {<<>>}]
    /\ unit = UnitIdle
    /\ generated = <<>>
    /\ pc = "start"
    /\ max_attempts = 1
    /\ test_cases = <<>>
    /\ history = <<>>
    /\ attempt = 0
    /\ code = None
    /\ test_results = <<>>
    /\ error_msg = UnknownError
    /\ passed = FALSE
    /\ debugger_feedback = None
    /\ previous_feedback = None
    /\ result = Pending
    /\ last_verification = [passed |-> FALSE, results |-> <<>>, set |-> FALSE]
    /\ genCalls = <<>>
    /\ vfyCalls = <<>>
    /\ dbgCalls = <<>>
    /\ dbgReturns = <<>>
    /\ builtins_added = {}
\* verify returned v: the caller keeps what it returned
HarnessVerifyReturns(v) ==
    /\ harness' =
          [harness EXCEPT
             !.tests = v.tests,
             !.log = Append(@, [tests_before |-> harness.tests,
                                passed |-> v.passed,
                                results |-> v.results,
                                error |-> v.error,
                                calls |-> v.calls,
                                entry |-> v.entry])]
    /\ last_verification' =
          IF v.stored
          THEN [passed |-> v.passed, results |-> v.results, set |-> TRUE]
          ELSE last_verification

\* verifier.verify(code, test_cases) returns
HarnessVerify ==
    /\ harness.phase = "ready"
    /\ builtins_added' = BuiltinsAfterLoad(harness.cand, builtins_added)
    /\ Len(harness.log) < MaxVerifyCalls
    /\ ~VerifyAborts(harness.cand, harness.tests)
    /\ HarnessVerifyReturns(verify(harness.cand, harness.tests))
    /\ UNCHANGED runVars

\* verifier.verify(code, test_cases) is left by SystemExit
HarnessVerifyAbort ==
    /\ harness.phase = "ready"
    /\ builtins_added' = BuiltinsAfterLoad(harness.cand, builtins_added)
    /\ Len(harness.log) < MaxVerifyCalls
    /\ VerifyAborts(harness.cand, harness.tests)
    /\ harness' = [harness EXCEPT !.phase = "aborted"]
    /\ UNCHANGED <<runVars, last_verification>>

NextHarness == HarnessVerify \/ HarnessVerifyAbort

SpecHarness == InitHarness /\ [][NextHarness]_vars

(***************************************************************************)
(* TestCaseGenerator._validate_output_types                                *)
(***************************************************************************)
\* A problem text is described by the word lists of which it contains a
\* word: sort/arrange/order, sum/total/count/add, search/find/index,
\* is_/check/valid/palindrome.
WordLists == {"ordering", "summing", "searching", "checking"}

\* the if/elif chain that infers the type of the expected values
expected_type(problem) ==
    IF "ordering" \in problem THEN "list"
    ELSE IF "summing" \in problem THEN "number"
    ELSE IF "searching" \in problem THEN "int"
    ELSE IF "checking" \in problem THEN "bool"
    ELSE "any"

\* isinstance(value, expected_type)
IsInstance(v, type) ==
    CASE type = "list"   -> v.tag = "list"
      [] type = "number" -> IsNumber(v)
      [] type = "int"    -> IsInt(v)
      [] type = "bool"   -> v.tag = "bool"

\* valid_cases: the cases whose expected value has the type, in their order
ValidCases(tcs, type) ==
    SelectSeq(tcs, LAMBDA tc : IsInstance(tc.expected, type))

\* the filter without its last branch
FilterOnly(tcs, type) == ValidCases(tcs, type)

\* lines 198-211: the valid cases, or all cases when none is valid
FilterOrAll(tcs, type) ==
    IF ValidCases(tcs, type) = <<>> THEN tcs ELSE ValidCases(tcs, type)

\* _validate_output_types
validate_output_types(tcs, problem) ==
    IF expected_type(problem) = "any" THEN tcs
    ELSE FilterOrAll(tcs, expected_type(problem))

(***************************************************************************)
(* FailureReportGenerator: the missing-module section of the report        *)
(***************************************************************************)
\* Names an error text can hold: two modules that are installed, one that is
\* not, a submodule that does not exist, and a name for which find_spec
\* raises.
ModuleNames == {"math", "xml", "zzzq", "xml.zzz", "__main__"}

\* the name holds a dot, so the pattern (\w+) does not match it
Dotted(name) == name = "xml.zzz"

\* name.split('.')[0]
TopLevel(name) == IF name = "xml.zzz" THEN "xml" ELSE name

\* importlib.util.find_spec(name)
FindSpec(name) ==
    CASE name \in {"math", "xml"} -> "found"
      [] name \in {"zzzq", "xml.zzz"} -> "none"
      [] name = "__main__" -> "raises"

\* check_module_availability: only the second branch has an install_cmd
check_module_availability(name) ==
    [available |-> FindSpec(name) = "found",
     has_install_cmd |-> FindSpec(name) = "none"]

\* An error text: "name 'X' is not defined", "No module named 'X'",
\* "ImportError: cannot import name 'X' from 'Y'", or a text of another form.
ErrorText(form, name, from) == [form |-> form, name |-> name, from |-> from]

OtherText == ErrorText("other", "math", "math")

\* re.findall over the four patterns: the names captured from one text
NamesIn(text) ==
    CASE text.form = "undefined" -> {text.name}
      [] text.form = "no_module" ->
            IF Dotted(text.name) THEN {} ELSE {text.name}
      [] text.form = "cannot_import" ->
            IF Dotted(text.from) THEN {} ELSE {text.name, text.from}
      [] OTHER -> {}

\* the names captured from 'actual' of the ERROR outcomes
NamesInResults(results) ==
    UNION {NamesIn(results[i].actual) :
              i \in {j \in 1..Len(results) : results[j].status = "ERROR"}}

\* the imports of the code that are not available, by their top-level name
UnavailableImports(imports) ==
    {TopLevel(m) : m \in {i \in imports :
                             ~check_module_availability(TopLevel(i)).available}}

\* extract_missing_modules
extract_missing_modules(error, results, imports) ==
    NamesIn(error) \cup NamesInResults(results) \cup UnavailableImports(imports)

\* lines 111-117: what the report says of one listed module; the Fix line
\* is written when the module is not available and has an install_cmd
ReportEntry(name) ==
    [module |-> name,
     available |-> check_module_availability(name).available,
     fix |-> IF /\ ~check_module_availability(name).available
                /\ check_module_availability(name).has_install_cmd
             THEN <<"pip install", name>> ELSE <<>>]

\* generate_report: the entries of the missing-module section
report_modules(error, results, imports) ==
    {ReportEntry(m) : m \in extract_missing_modules(error, results, imports)}

(***************************************************************************)
(* The helper functions called on their own: the inputs are drawn by       *)
(* InitUnit and each action applies one function to the inputs in unit.    *)
(***************************************************************************)
MaxListLen == 2
MaxFilterCases == 3
MaxFailures == 4
MaxReportOutcomes == 2
MaxSummaryOutcomes == 6

NotCalled == "pending"

UnitCall(op, in) == [op |-> op, done |-> FALSE, in |-> in, out |-> NotCalled]

\* values the entry function can return and a test case can expect
MatchScalars ==
    {PyInt(1), PyFloat(1, 0), PyFloat(1, 1), PyFloat(1, 2), PyInf(1),
     PyStr(1), PyNumStr(1)}

MatchElements ==
    {PyInt(1), PyFloat(1, 0), PyFloat(1, 1), PyInf(1), PyStr(1), PyNumStr(1),
     PyList(<<PyFloat(1, 0)>>), PyList(<<PyFloat(1, 1)>>)}

MatchValues ==
    MatchScalars
        \cup {PyList(xs) : xs \in SeqsUpTo(MatchElements, MaxListLen)}
        \cup {PyTuple(<<PyFloat(1, 0)>>), PyTuple(<<PyFloat(1, 1)>>)}

FilterCases ==
    [input : {PyInt(1), PyInt(2)},
     expected : {PyList(<<>>), PyInt(1), PyFloat(1, 0), PyBool(TRUE), PyStr(1)}]

Failures ==
    {[test_num |-> 1, input |-> PyInt(1), expected |-> PyInt(1),
      actual |-> PyInt(0), status |-> "FAIL"],
     [test_num |-> 2, input |-> PyInt(1), expected |-> PyInt(1),
      actual |-> ErrorActual, status |-> "ERROR"]}

ErrorTexts ==
    {OtherText}
        \cup {ErrorText("undefined", n, n) : n \in {"math", "zzzq", "__main__"}}
        \cup {ErrorText("no_module", n, n) : n \in {"math", "zzzq", "xml.zzz"}}
        \cup {ErrorText("cannot_import", "zzzq", f) : f \in {"math", "xml.zzz"}}

ReportOutcomes ==
    [status : {"ERROR"}, actual : ErrorTexts]
        \cup [status : {"FAIL"}, actual : {OtherText}]

FilterInputs == SeqsUpTo(FilterCases, MaxFilterCases)

FailureLists == SeqsUpTo(Failures, MaxFailures)

ReportResults == SeqsUpTo(ReportOutcomes, MaxReportOutcomes)

ImportSets == {{}, {"math"}, {"zzzq"}, {"math", "xml.zzz"}}

\* last candidates of several lengths
ReportCodes ==
    {"c_zero", "c_chars_1499", "c_chars_1500", "c_chars_1501", "c_chars_3000"}

Statuses == {"PASS", "FAIL", "ERROR"}

\* test case i of a run and its outcome with the given status
SummaryTest(i) == [input |-> PyInt(i), expected |-> PyInt(1)]

SummaryOutcome(i, st) ==
    [test_num |-> i, input |-> PyInt(i), expected |-> PyInt(1),
     actual |-> CASE st = "PASS" -> PyInt(1)
                  [] st = "FAIL" -> PyInt(0)
                  [] st = "ERROR" -> ErrorActual,
     status |-> st]

\* the failure result of a run of n test cases whose last attempt ran the
\* tests with the given statuses, or failed before any test ran
SummaryResult(c, n, sts, ran) ==
    FailureResult(c, 1, [i \in 1..n |-> SummaryTest(i)],
                  IF ran THEN [i \in 1..n |-> SummaryOutcome(i, sts[i])]
                  ELSE <<>>,
                  IF ran
                  THEN [kind |-> "TestsFailed",
                        k |-> Cardinality({i \in 1..n : sts[i] # "PASS"}),
                        n |-> n]
                  ELSE [kind |-> "Syntax", k |-> 0, n |-> 0],
                  <<>>)

\* the calls that can be made, each with its arguments
UnitCalls ==
    \/ \E a \in MatchValues, e \in MatchValues :
          unit = UnitCall("values_match", [actual |-> a, expected |-> e])
    \/ \E tcs \in FilterInputs, p \in SUBSET WordLists :
          unit = UnitCall("validate_output_types",
                          [test_cases |-> tcs, problem |-> p])
    \/ \E r \in Responses, m \in SUBSET Phrases, f \in FailureLists :
          unit = UnitCall("analyze",
                          [response |-> r, error_msg |-> m, test_failures |-> f])
    \/ \E t \in ErrorTexts, rs \in ReportResults, c \in ImportSets :
          unit = UnitCall("generate_report",
                          [error |-> t, test_results |-> rs, imports |-> c])
    \/ \E c \in ReportCodes, n \in 1..MaxSummaryOutcomes :
          \/ \E sts \in [1..n -> Statuses] :
                /\ \E i \in 1..n : sts[i] # "PASS"
                /\ unit = UnitCall("report_summary",
                                   [result |-> SummaryResult(c, n, sts, TRUE)])
          \/ unit = UnitCall("report_summary",
                             [result |-> SummaryResult(c, n, [i \in 1..n |-> "PASS"],
                                                       FALSE)])
    \/ \E a \in MatchValues, e \in MatchValues :
          unit = UnitCall("run_single_test",
                          [returned |-> a,
                           test |-> [input |-> PyInt(1), expected |-> e]])

restVars == <<pc, max_attempts, test_cases, history, attempt, code, test_results,
              error_msg, passed, debugger_feedback, previous_feedback, result,
              genCalls, vfyCalls, dbgCalls, dbgReturns, generated, harness,
              last_verification, builtins_added>>

InitUnit ==
    /\ UnitCalls
    /\ harness = HarnessIdle
    /\ generated = <<>>
    /\ pc = "start"
    /\ max_attempts = 1
    /\ test_cases = <<>>
    /\ history = <<>>
    /\ attempt = 0
    /\ code = None
    /\ test_results = <<>>
    /\ error_msg = UnknownError
    /\ passed = FALSE
    /\ debugger_feedback = None
    /\ previous_feedback = None
    /\ result = Pending
    /\ last_verification = [passed |-> FALSE, results |-> <<>>, set |-> FALSE]
    /\ genCalls = <<>>
    /\ vfyCalls = <<>>
    /\ dbgCalls = <<>>
    /\ dbgReturns = <<>>
    /\ builtins_added = {}

Returned(v) == unit' = [unit EXCEPT !.done = TRUE, !.out = v]

\* verifier._values_match(actual, expected)
UnitValuesMatch ==
    /\ unit.op = "values_match" /\ ~unit.done
    /\ Returned(values_match(unit.in.actual, unit.in.expected))
    /\ UNCHANGED restVars

\* test_generator._validate_output_types(test_cases, problem)
UnitValidateOutputTypes ==
    /\ unit.op = "validate_output_types" /\ ~unit.done
    /\ Returned(validate_output_types(unit.in.test_cases, unit.in.problem))
    /\ UNCHANGED restVars

\* debugger.analyze(code, problem, test_failures, error_msg)
UnitAnalyze ==
    /\ unit.op = "analyze" /\ ~unit.done
    /\ Returned(analyze(unit.in.response, unit.in.error_msg,
                        unit.in.test_failures))
    /\ UNCHANGED restVars

\* failure_reporter.generate_report(result)
UnitGenerateReport ==
    /\ unit.op = "generate_report" /\ ~unit.done
    /\ Returned(report_modules(unit.in.error, unit.in.test_results,
                               unit.in.imports))
    /\ UNCHANGED restVars

\* failure_reporter.generate_report(result): the test summary and the code
UnitReportSummary ==
    /\ unit.op = "report_summary" /\ ~unit.done
    /\ Returned(generate_report(unit.in.result))
    /\ UNCHANGED restVars

\* the call of the entry function returned value v
ReturnedNormally(v) == [raised |-> FALSE, exits |-> FALSE, value |-> v]

\* verifier._run_single_test(func, test, 1), lines 145-180: the entry
\* function has returned unit.in.returned
UnitRunSingleTest ==
    /\ unit.op = "run_single_test" /\ ~unit.done
    /\ Returned(Outcome(unit.in.test, 1, ReturnedNormally(unit.in.returned),
                        unit.in.test.input))
    /\ UNCHANGED restVars

NextUnit ==
    \/ UnitValuesMatch
    \/ UnitValidateOutputTypes
    \/ UnitAnalyze
    \/ UnitGenerateReport
    \/ UnitReportSummary
    \/ UnitRunSingleTest

SpecUnit == InitUnit /\ [][NextUnit]_vars

(***************************************************************************)
(* Properties of the repair loop                                           *)
(***************************************************************************)
Done == pc = "done"

LastRecord == history[Len(history)]

AllAttemptsFailed == \A i \in 1..Len(history) : ~history[i].passed

HasReport == "debug_report" \in DOMAIN result

\* C1 (as stated): when a run has returned, the length of the returned
\* history equals the returned attempts value if the run succeeded and
\* equals max_attempts if it failed.
C1_HistoryLengthAsStated ==
    Done => /\ result.success => Len(result.history) = result.attempts
            /\ ~result.success => Len(result.history) = max_attempts

\* C1 (amended): when a run has returned, the length of the returned history
\* equals the returned attempts value if the run succeeded, equals
\* max_attempts if it failed after a non-empty test set was generated, and is
\* 0 if it failed because no test case was generated.
C1_HistoryLength ==
    Done => /\ result.success => Len(result.history) = result.attempts
            /\ (~result.success /\ test_cases # <<>>) =>
                   /\ Len(result.history) = max_attempts
                   /\ result.attempts = max_attempts
            /\ (~result.success /\ test_cases = <<>>) =>
                   Len(result.history) = 0

C1_Witness ==
    /\ Done /\ ~result.success /\ test_cases # <<>>
    /\ Len(result.history) = 2

C3_AttemptIndices ==
    \A i \in 1..Len(history) : history[i].attempt = i

C3_Witness == Len(history) = 3

\* C4: with max_attempts = N, a non-empty test set and a candidate that fails
\* on every attempt, the run makes N generate calls, N verify calls and N-1
\* debugger calls, returns success = false, and the report says
\* "Attempts Made: N/N".
C4_AlwaysFailingRun ==
    (Done /\ test_cases # <<>> /\ AllAttemptsFailed) =>
        /\ Len(genCalls) = max_attempts
        /\ Len(vfyCalls) = max_attempts
        /\ Len(dbgCalls) = max_attempts - 1
        /\ result.success = FALSE
        /\ HasReport
        /\ result.debug_report.attempts_made = max_attempts
        /\ result.debug_report.budget = max_attempts

C4_Witness ==
    /\ Done /\ test_cases # <<>> /\ AllAttemptsFailed
    /\ max_attempts = 3 /\ Len(dbgCalls) = 2

C6_FeedbackToGenerator ==
    \A i \in 1..Len(genCalls) :
        IF i = 1
        THEN genCalls[i] = None
        ELSE /\ Len(dbgReturns) >= i - 1
             /\ dbgCalls[i - 1].iteration = i - 1
             /\ genCalls[i] = dbgReturns[i - 1]
             /\ genCalls[i] # None

C6_Witness ==
    /\ Len(genCalls) = 3
    /\ dbgReturns[1] # dbgReturns[2]
    /\ genCalls[3] = dbgReturns[2]

\* f holds exactly the non-PASS outcomes of tr, in test order
OrderedNonPass(f, tr) ==
    /\ \A k \in 1..Len(f) :
          /\ f[k].status # "PASS"
          /\ f[k].test_num \in 1..Len(tr)
          /\ f[k] = tr[f[k].test_num]
    /\ \A k \in 1..(Len(f) - 1) : f[k].test_num < f[k + 1].test_num
    /\ Len(f) = Cardinality({i \in 1..Len(tr) : tr[i].status # "PASS"})

\* C7: the debugger is called exactly when an attempt fails and
\* attempt < max_attempts; the call gets the candidate, the non-PASS outcomes
\* in test order and the error summary of that attempt, the attempt index,
\* and as prior feedback nothing on attempt 1 and otherwise the text the
\* debugger returned on attempt - 1.
C7_DebuggerCalls ==
    /\ \A j \in 1..Len(dbgCalls) :
          LET d == dbgCalls[j]
          IN  /\ d.iteration = j
              /\ j <= Len(history)
              /\ ~history[j].passed
              /\ j < max_attempts
              /\ d.code = history[j].code
              /\ d.error_msg = history[j].error
              /\ OrderedNonPass(d.test_failures, history[j].test_results)
              /\ d.previous_feedback =
                    IF j = 1 THEN None ELSE dbgReturns[j - 1]
    /\ \A i \in 1..Len(history) :
          (~history[i].passed /\ i < max_attempts) =>
              \/ i <= Len(dbgCalls)
              \/ (i = Len(history) /\ pc = "debug")

C7_Witness ==
    /\ Len(dbgCalls) = 2
    /\ dbgCalls[2].previous_feedback = dbgReturns[1]
    /\ \E k \in 1..Len(dbgCalls[2].test_failures) :
          dbgCalls[2].test_failures[k].status = "ERROR"
    /\ Len(dbgCalls[2].test_failures) < Len(history[2].test_results)

\* C8: at most one feedback string is live: at the start of every loop
\* iteration the feedback held for the generator and the one held as
\* previous feedback are the same value, both absent before the first debug
\* call, and each debug call replaces the value.
C8_SingleFeedback ==
    /\ pc = "generate" => debugger_feedback = previous_feedback
    /\ dbgReturns = <<>> =>
          (debugger_feedback = None /\ previous_feedback = None)
    /\ dbgReturns # <<>> =>
          debugger_feedback = dbgReturns[Len(dbgReturns)]

C8_Witness ==
    /\ pc = "generate" /\ Len(dbgReturns) = 2
    /\ dbgReturns[1] # dbgReturns[2]
    /\ previous_feedback = dbgReturns[2]

\* C9: when the run returns success = true, the returned candidate and
\* outcomes are those of the last history record, attempts is that record's
\* index, that record has passed = true, and the outcomes hold one PASS
\* outcome for every test case of the run.
C9_SuccessResult ==
    (Done /\ result.success) =>
        /\ result.history = history
        /\ Len(history) >= 1
        /\ result.code = LastRecord.code
        /\ result.test_results = LastRecord.test_results
        /\ result.attempts = LastRecord.attempt
        /\ LastRecord.passed
        /\ result.test_cases = test_cases
        /\ Len(result.test_results) = Len(test_cases)
        /\ \A i \in 1..Len(test_cases) :
              /\ result.test_results[i].status = "PASS"
              /\ result.test_results[i].test_num = i
              /\ result.test_results[i].input = test_cases[i].input
              /\ result.test_results[i].expected = test_cases[i].expected

C9_Witness ==
    /\ Done /\ result.success
    /\ result.attempts = 2 /\ Len(test_cases) = 2

\* C10: a report is produced if and only if the run used up its attempt
\* budget without success; that result carries the last attempt's candidate
\* and outcomes and attempts = max_attempts, while a successful result and
\* the empty-test-set result carry no report.
C10_ReportOnlyOnExhaustion ==
    Done =>
        /\ HasReport <=>
              /\ Len(history) = max_attempts
              /\ AllAttemptsFailed
        /\ HasReport =>
              /\ result.success = FALSE
              /\ result.code = LastRecord.code
              /\ result.test_results = LastRecord.test_results
              /\ result.attempts = max_attempts
              /\ result.history = history
        /\ result.success => ~HasReport
        /\ test_cases = <<>> => ~HasReport

C10_Witness ==
    /\ Done /\ HasReport
    /\ max_attempts = 2 /\ Len(history) = 2

\* C11: a run ends before performing max_attempts attempts only when an
\* attempt passed all tests or the generated test-case set was empty; no
\* failure of the candidate, of the generator or of the debugger ends the
\* run early.
C11_NoEarlyEnd ==
    (pc \in {"done", "aborted"} /\ Len(genCalls) < max_attempts) =>
        /\ pc = "done"
        /\ result.success \/ test_cases = <<>>

(***************************************************************************)
(* Properties of verify, on a directly driven verifier                     *)
(***************************************************************************)
HarnessProgram == Program(harness.cand)

\* the program loaded and binds a public callable
ProgramHasEntry ==
    /\ HarnessProgram.parses
    /\ HarnessProgram.load = "ok"
    /\ \E i \in 1..Len(HarnessProgram.namespace) :
          /\ HarnessProgram.namespace[i].callable
          /\ HarnessProgram.namespace[i].name[1] # "_"

\* the failure verify reports for a program without entry function
ProgramFailureKind ==
    IF ~HarnessProgram.parses THEN "Syntax"
    ELSE IF HarnessProgram.load = "raise" THEN "Execution"
    ELSE "NoFunction"

\* the descriptor of the function the verify call invoked
EntryFnOf(r) ==
    LET ns == HarnessProgram.namespace
    IN  ns[CHOOSE i \in 1..Len(ns) : ns[i].name = r.entry].fn

EntryParams(r) ==
    EntryFnOf(r).required + EntryFnOf(r).optional
        + (IF EntryFnOf(r).varargs THEN 1 ELSE 0)

DeclaredEntries ==
    {i \in 1..Len(HarnessProgram.namespace) :
        /\ HarnessProgram.namespace[i].kind \in {"def", "class", "assign"}
        /\ HarnessProgram.namespace[i].callable
        /\ HarnessProgram.namespace[i].name[1] # "_"}

\* C13: the entry function verify invokes is the first publicly-named
\* callable the candidate declares, in declaration order; when the candidate
\* declares none, verify reports the no-entry-function error and runs no
\* test.
C13_FirstDeclaredCallable ==
    \A k \in 1..Len(harness.log) :
        LET r == harness.log[k]
            ns == HarnessProgram.namespace
        IN  (HarnessProgram.parses /\ HarnessProgram.load = "ok") =>
              IF DeclaredEntries # {}
              THEN \E i \in DeclaredEntries :
                      /\ \A j \in DeclaredEntries : i <= j
                      /\ r.entry = ns[i].name
              ELSE /\ r.error.kind = "NoFunction"
                   /\ \A i \in 1..Len(r.calls) : r.calls[i] = <<>>

\* C14: once an entry function is found, an exception raised while binding
\* arguments to or invoking it for one test case is recorded as that test's
\* ERROR outcome only: verify returns, every test case has exactly one
\* outcome, in test-case order, and the k-th outcome has test_num = k.
C14_PerTestIsolation ==
    ProgramHasEntry =>
        /\ harness.phase # "aborted"
        /\ \A k \in 1..Len(harness.log) :
              LET r == harness.log[k]
              IN  /\ Len(r.results) = Len(r.tests_before)
                  /\ \A i \in 1..Len(r.results) :
                        /\ r.results[i].test_num = i
                        /\ r.results[i].expected = r.tests_before[i].expected

C16_OneParamWholeList ==
    \A k \in 1..Len(harness.log) :
        LET r == harness.log[k]
        IN  ProgramHasEntry =>
              \A i \in 1..Len(r.tests_before) :
                  LET inp == r.tests_before[i].input
                  IN  (/\ EntryFnOf(r).sig_ok
                       /\ inp.tag = "list"
                       /\ EntryParams(r) = 1) =>
                          r.calls[i] = << <<inp>> >>

C16_Witness ==
    /\ Len(harness.log) = 1
    /\ harness.cand = "c_ident"
    /\ Len(harness.tests) = 2
    /\ harness.log[1].tests_before[1].input = PyList(<<>>)
    /\ harness.log[1].tests_before[2].input =
          PyList(<<PyInt(1), PyInt(0), PyInt(1)>>)
    /\ harness.log[1].calls[2] =
          << <<PyList(<<PyInt(1), PyInt(0), PyInt(1)>>)>> >>

\* C17: when the test input is a list whose length equals the entry
\* function's parameter count A and A > 1, the entry function is called once
\* with the elements as A positional arguments in order, each element
\* unchanged even when it is itself a list.
C17_MatchingArityUnpacks ==
    \A k \in 1..Len(harness.log) :
        LET r == harness.log[k]
        IN  ProgramHasEntry =>
              \A i \in 1..Len(r.tests_before) :
                  LET inp == r.tests_before[i].input
                  IN  (/\ EntryFnOf(r).sig_ok
                       /\ inp.tag = "list"
                       /\ EntryParams(r) > 1
                       /\ Len(inp.items) = EntryParams(r)) =>
                          /\ Len(r.calls[i]) = 1
                          /\ Len(r.calls[i][1]) = EntryParams(r)
                          /\ \A j \in 1..Len(inp.items) :
                                r.calls[i][1][j] = inp.items[j]

C17_Witness ==
    /\ Len(harness.log) = 1
    /\ harness.cand = "c_arity2"
    /\ Len(harness.tests) = 1
    /\ harness.log[1].calls[1] = << <<PyList(<<PyInt(1)>>), PyInt(0)>> >>
    /\ harness.log[1].results[1].status = "PASS"

\* the list input and arity of C18: length differs from A, and A is not 1
AmbiguousCase(r, inp) ==
    /\ EntryFnOf(r).sig_ok
    /\ inp.tag = "list"
    /\ EntryParams(r) # 1
    /\ Len(inp.items) # EntryParams(r)

\* the positional-unpack call is rejected for its argument count
UnpackRejected(r, inp) ==
    \/ Len(inp.items) < EntryFnOf(r).required
    \/ /\ ~EntryFnOf(r).varargs
       /\ Len(inp.items) > EntryFnOf(r).required + EntryFnOf(r).optional

\* C18 (as stated): when the test input is a list whose length differs from
\* the parameter count A and A is not 1, the positional-unpack call is made
\* first and, whenever it fails for an arity mismatch, the entry function is
\* then called with the whole list as a single argument.
C18_UnpackThenFallback ==
    \A k \in 1..Len(harness.log) :
        LET r == harness.log[k]
        IN  ProgramHasEntry =>
              \A i \in 1..Len(r.tests_before) :
                  LET inp == r.tests_before[i].input
                  IN  AmbiguousCase(r, inp) =>
                        /\ r.calls[i][1] = inp.items
                        /\ UnpackRejected(r, inp) =>
                              /\ Len(r.calls[i]) = 2
                              /\ r.calls[i][2] = <<inp>>

\* C18 (amended): when the test input is a non-empty list whose length
\* differs from the parameter count A and A is not 1, the positional-unpack
\* call is made first and, whenever it fails for an arity mismatch, the entry
\* function is then called with the whole list as a single argument; for an
\* empty list and A not 1 the entry function is called once without
\* arguments and there is no fallback call.
C18_UnpackThenFallbackNonEmpty ==
    \A k \in 1..Len(harness.log) :
        LET r == harness.log[k]
        IN  ProgramHasEntry =>
              \A i \in 1..Len(r.tests_before) :
                  LET inp == r.tests_before[i].input
                  IN  AmbiguousCase(r, inp) =>
                        IF Len(inp.items) > 0
                        THEN /\ r.calls[i][1] = inp.items
                             /\ UnpackRejected(r, inp) =>
                                   /\ Len(r.calls[i]) = 2
                                   /\ r.calls[i][2] = <<inp>>
                        ELSE r.calls[i] = << <<>> >>

C18_Witness ==
    /\ Len(harness.log) = 1
    /\ harness.cand = "c_default"
    /\ Len(harness.tests) = 1
    /\ harness.log[1].calls[1] =
          << <<PyInt(1), PyInt(0), PyInt(1)>>,
             <<PyList(<<PyInt(1), PyInt(0), PyInt(1)>>)>> >>
    /\ harness.log[1].results[1].status = "FAIL"

\* C19: a tuple input is always unpacked positionally and an input that is
\* neither a list nor a tuple is always passed as the sole argument, whatever
\* the parameter count of the entry function, and in neither case is there a
\* second call.
C19_TupleAndScalarRules ==
    \A k \in 1..Len(harness.log) :
        LET r == harness.log[k]
        IN  ProgramHasEntry =>
              \A i \in 1..Len(r.tests_before) :
                  LET inp == r.tests_before[i].input
                  IN  EntryFnOf(r).sig_ok =>
                        /\ inp.tag = "tuple" => r.calls[i] = <<inp.items>>
                        /\ inp.tag \notin {"list", "tuple"} =>
                              r.calls[i] = << <<inp>> >>

C19_Witness ==
    /\ Len(harness.log) = 1
    /\ harness.cand = "c_ident"
    /\ Len(harness.tests) = 2
    /\ harness.log[1].tests_before[1].input = PyTuple(<<PyInt(1), PyInt(0)>>)
    /\ harness.log[1].calls[1] = << <<PyInt(1), PyInt(0)>> >>
    /\ harness.log[1].results[1].status = "ERROR"
    /\ harness.log[1].tests_before[2].input = PyInt(1)
    /\ harness.log[1].calls[2] = << <<PyInt(1)>> >>

\* C20: two successive calls of verify with the same candidate and the same
\* test-case list return the same all_passed flag and the same sequence of
\* outcome statuses.
C20_RepeatedVerifyAgrees ==
    Len(harness.log) >= 2 =>
        /\ harness.log[1].passed = harness.log[2].passed
        /\ Len(harness.log[1].results) = Len(harness.log[2].results)
        /\ \A i \in 1..Len(harness.log[1].results) :
              harness.log[1].results[i].status = harness.log[2].results[i].status

(***************************************************************************)
(* Properties of the objects a run shares with the candidates it executes  *)
(***************************************************************************)
\* C21: the test-case set of a run is fixed: at every attempt the input and
\* the expected value of every test case are the same as when the test cases
\* were generated, whatever the candidates did with their arguments.
C21_TestCasesFixed ==
    pc # "start" =>
        /\ Len(test_cases) = Len(generated)
        /\ \A i \in 1..Len(test_cases) :
              /\ test_cases[i].input = generated[i].input
              /\ test_cases[i].expected = generated[i].expected

\* C23: history is append-only and frozen: a step of the run never changes
\* the candidate, the passed flag or any outcome field of a record that is
\* already in history.
C23_HistoryFrozen ==
    [][\A i \in 1..Len(history) :
          /\ i <= Len(history')
          /\ history'[i] = history[i]]_vars

\* the outcome of test case t of the verify call r when the freshly loaded
\* candidate runs it alone
OutcomeAlone(t, i) ==
    run_single_test(EntryBinding(harness.cand).fn, t, i)

\* C22: within one verification the outcome of test j depends only on the
\* candidate source and on test case j, not on the tests that ran before it:
\* status and actual value are those of the test run alone.
C22_TestsIndependent ==
    ProgramHasEntry =>
        \A k \in 1..Len(harness.log) :
            LET r == harness.log[k]
            IN  \A j \in 1..Len(r.results) :
                    /\ r.results[j].status = OutcomeAlone(r.tests_before[j], j).status
                    /\ r.results[j].actual = OutcomeAlone(r.tests_before[j], j).actual

(***************************************************************************)
(* Failures of the collaborators                                           *)
(***************************************************************************)
\* C24: when the code-generation call fails, generate returns the placeholder
\* candidate; the loop verifies it, records the attempt as failed (no entry
\* function, no outcome), and goes on as after any failed attempt: the
\* debugger is consulted when attempts remain and its text is given to the
\* next generate call, and the last attempt leads to the failure result.
C24_PlaceholderAttempt ==
    \A i \in 1..Len(history) :
        history[i].code = Placeholder =>
            /\ vfyCalls[i] = Placeholder
            /\ history[i].attempt = i
            /\ ~history[i].passed
            /\ history[i].error.kind = "NoFunction"
            /\ history[i].test_results = <<>>
            /\ i < max_attempts =>
                  \/ i = Len(history) /\ pc = "debug"
                  \/ /\ i <= Len(dbgCalls)
                     /\ dbgCalls[i].code = Placeholder
                     /\ dbgCalls[i].error_msg.kind = "NoFunction"
                     /\ \/ pc = "generate" /\ attempt = i + 1
                        \/ /\ Len(genCalls) >= i + 1
                           /\ genCalls[i + 1] = dbgReturns[i]
            /\ i = max_attempts =>
                  /\ Len(dbgCalls) < i
                  /\ pc \in {"exhausted", "done"}
                  /\ pc = "done" => ~result.success

C24_Witness ==
    /\ pc = "done"
    /\ Len(history) = 3
    /\ history[1].code = Placeholder
    /\ history[2].code = "c_ident" /\ ~history[2].passed
    /\ history[3].code = Placeholder
    /\ genCalls[2] = "fb_local_no_function"
    /\ ~result.success

\* the debug call did not give a usable text
LocalFeedbackCase ==
    unit.op = "analyze" /\ unit.done /\ unit.in.response # "text"

\* the class of an error message by the precedence no-entry-function,
\* syntax-failure, undefined-reference, generic-test-failure
PrecedenceClass(m) ==
    IF "No function found" \in m THEN "no_function"
    ELSE IF "Syntax Error" \in m \/ "SyntaxError" \in m THEN "syntax"
    ELSE IF "not defined" \in m \/ "ImportError" \in m THEN "undefined"
    ELSE "tests"

\* C25 (as stated): when the debug call fails or its response is unusable,
\* analyze returns the local feedback of the error's class, the class chosen
\* in the precedence no-entry-function, syntax-failure, undefined-reference,
\* generic-test-failure, and the text depends on nothing but the class.
C25_TextFromClassAlone ==
    LocalFeedbackCase =>
        unit.out = ClassText(PrecedenceClass(unit.in.error_msg))

\* C25 (amended): the class is chosen in that precedence; the text of the
\* first three classes is fixed, and the text of a generic test failure also
\* states the number of failing outcomes and shows test number, input,
\* expected and actual value of the first three of them.
C25_LocalFeedback ==
    LocalFeedbackCase =>
        /\ unit.out.class = PrecedenceClass(unit.in.error_msg)
        /\ unit.out.class # "tests" => unit.out = ClassText(unit.out.class)
        /\ unit.out.class = "tests" =>
              /\ unit.out.failed_count = Len(unit.in.test_failures)
              /\ Len(unit.out.shown) =
                    (IF Len(unit.in.test_failures) < 3
                     THEN Len(unit.in.test_failures) ELSE 3)
              /\ \A i \in 1..Len(unit.out.shown) :
                    /\ unit.out.shown[i].test_num = unit.in.test_failures[i].test_num
                    /\ unit.out.shown[i].input = unit.in.test_failures[i].input
                    /\ unit.out.shown[i].expected = unit.in.test_failures[i].expected
                    /\ unit.out.shown[i].actual = unit.in.test_failures[i].actual

C25_Witness ==
    /\ LocalFeedbackCase
    /\ unit.in.response = "raises"
    /\ unit.in.error_msg = {"No function found", "SyntaxError", "not defined"}
    /\ Len(unit.in.test_failures) = 4
    /\ unit.out = ClassText("no_function")

(***************************************************************************)
(* Comparing actual and expected values                                    *)
(***************************************************************************)
MatchCase == unit.op = "values_match" /\ unit.done

IsSequence(v) == v.tag \in {"list", "tuple"}

\* the rule for two values that are no sequences: tolerant when both are
\* numbers and one of them is a float, exact otherwise
ScalarRule(a, e) ==
    IF IsNumber(a) /\ IsNumber(e) /\ (IsFloat(a) \/ IsFloat(e))
    THEN Close(a, e)
    ELSE PyEq(a, e)

\* C26: for two values that are no sequences the comparison is
\* |actual - expected| < 1e-9 whenever both are numbers and either of them
\* is a float, and exact equality otherwise.
C26_TolerantEitherSide ==
    (MatchCase /\ ~IsSequence(unit.in.actual) /\ ~IsSequence(unit.in.expected)) =>
        unit.out = Matched(ScalarRule(unit.in.actual, unit.in.expected))

\* C27: every value matches itself.
C27_Reflexive ==
    (MatchCase /\ unit.in.actual = unit.in.expected) => unit.out = Matched(TRUE)

\* the rule for one pair of elements: numbers by the tolerance rule, other
\* values (nested sequences among them) by equality
ElementRule(a, e) ==
    IF IsNumber(a) /\ IsNumber(e) THEN ScalarRule(a, e) ELSE a = e

\* C28: two lists of different lengths do not match; two lists of the same
\* length match exactly when every pair of elements matches, numbers by the
\* tolerance rule, other elements and nested lists by exact equality.
C28_ElementWise ==
    (MatchCase /\ unit.in.actual.tag = "list" /\ unit.in.expected.tag = "list") =>
        IF Len(unit.in.actual.items) # Len(unit.in.expected.items)
        THEN unit.out = Matched(FALSE)
        ELSE unit.out =
                Matched(\A i \in 1..Len(unit.in.expected.items) :
                           ElementRule(unit.in.actual.items[i],
                                       unit.in.expected.items[i]))

(***************************************************************************)
(* The conformance filter of the test generator                            *)
(***************************************************************************)
FilterCase == unit.op = "validate_output_types" /\ unit.done

\* the positions of the cases whose expected value is of the type
ConformingAt(tcs, type) ==
    {i \in 1..Len(tcs) : IsInstance(tcs[i].expected, type)}

\* the position of the k-th conforming case
KthConforming(tcs, type, k) ==
    CHOOSE i \in ConformingAt(tcs, type) :
        Cardinality({j \in ConformingAt(tcs, type) : j <= i}) = k

\* C29: the filter never returns an empty list from a non-empty one; when a
\* category is inferred and some case conforms, the result is the conforming
\* cases in their original order; when none conforms, the result is the
\* list as given.
C29_FilterKeepsSomething ==
    FilterCase =>
        /\ unit.in.test_cases # <<>> => unit.out # <<>>
        /\ expected_type(unit.in.problem) # "any" =>
              IF ConformingAt(unit.in.test_cases, expected_type(unit.in.problem)) # {}
              THEN /\ Len(unit.out) =
                        Cardinality(ConformingAt(unit.in.test_cases,
                                                 expected_type(unit.in.problem)))
                   /\ \A k \in 1..Len(unit.out) :
                        unit.out[k] =
                            unit.in.test_cases[
                                KthConforming(unit.in.test_cases,
                                              expected_type(unit.in.problem), k)]
              ELSE unit.out = unit.in.test_cases

C29_Witness ==
    /\ FilterCase
    /\ unit.in.problem = {"searching", "checking"}
    /\ unit.in.test_cases =
          <<[input |-> PyInt(2), expected |-> PyStr(1)],
            [input |-> PyInt(1), expected |-> PyList(<<>>)]>>
    /\ unit.out = unit.in.test_cases

(***************************************************************************)
(* The missing-module section of the failure report                        *)
(***************************************************************************)
ReportCase == unit.op = "generate_report" /\ unit.done

\* the name an error text reports as undefined or as a module not found
ReportedBy(text) ==
    IF text.form \in {"undefined", "no_module"} THEN {text.name} ELSE {}

\* the names reported by the run's error text and by the ERROR outcomes
ReportedNames ==
    ReportedBy(unit.in.error) \cup
    UNION {ReportedBy(unit.in.test_results[i].actual) :
              i \in {j \in 1..Len(unit.in.test_results) :
                        unit.in.test_results[j].status = "ERROR"}}

\* C30: every name that the final error text or an ERROR outcome reports as
\* undefined or as a module not found is listed in the report's
\* missing-module section, with an install command for it.
C30_ReportedNameHasFix ==
    ReportCase =>
        \A name \in ReportedNames :
            \E entry \in unit.out :
                entry.module = name /\ entry.fix = <<"pip install", name>>

(***************************************************************************)
(* The failure report of a run                                             *)
(***************************************************************************)
\* C31: generate_report returns a report for every failure result the loop
\* hands to it: no run ends with an exception of generate_report, and every
\* run that used up its budget returns a result that holds the report.
C31_ReportAlwaysBuilt ==
    /\ pc # "raised"
    /\ (Done /\ ~result.success /\ test_cases # <<>>) =>
          /\ HasReport
          /\ ~result.debug_report.raises
          /\ result.debug_report.code = code

C31_Witness ==
    /\ Done
    /\ HasReport
    /\ max_attempts = 2
    /\ result.debug_report.code = "c_raise1"
    /\ result.debug_report.error.kind = "TestsFailed"
    /\ result.debug_report.n_errors = 1
    /\ history[1].code = "c_syntax"

SummaryCase == unit.op = "report_summary" /\ unit.done

\* C32: the report shows the last candidate's source unchanged when it is
\* at most 1500 characters long, and otherwise its first 1500 characters
\* followed by the truncation marker.
C32_CodeTruncation ==
    SummaryCase =>
        /\ unit.out.shown_code.code = unit.in.result.code
        /\ IF CodeLength(unit.in.result.code) <= 1500
           THEN /\ unit.out.shown_code.chars = CodeLength(unit.in.result.code)
                /\ ~unit.out.shown_code.marker
           ELSE /\ unit.out.shown_code.chars = 1500
                /\ unit.out.shown_code.marker

C32_Witness ==
    /\ SummaryCase
    /\ unit.in.result.code = "c_chars_1501"
    /\ unit.out.shown_code.chars = 1500
    /\ unit.out.shown_code.marker

\* the test numbers of the outcomes of the result that did not pass
NonPassNums ==
    {i \in 1..Len(unit.in.result.test_results) :
        unit.in.result.test_results[i].status # "PASS"}

\* the k-th of them in test order
KthNonPass(k) ==
    CHOOSE i \in NonPassNums : Cardinality({j \in NonPassNums : j <= i}) = k

\* the details are those of the first five outcomes that did not pass, and
\* the number of the remaining ones is given when there are more than five
DetailsAsStated ==
    /\ Len(unit.out.details) =
          (IF Cardinality(NonPassNums) < 5 THEN Cardinality(NonPassNums) ELSE 5)
    /\ \A k \in 1..Len(unit.out.details) :
          /\ unit.out.details[k].test_num = KthNonPass(k)
          /\ unit.out.details[k].input = unit.in.result.test_results[KthNonPass(k)].input
          /\ unit.out.details[k].expected = unit.in.result.test_results[KthNonPass(k)].expected
          /\ unit.out.details[k].actual = unit.in.result.test_results[KthNonPass(k)].actual
    /\ unit.out.more =
          (IF Cardinality(NonPassNums) > 5 THEN Cardinality(NonPassNums) - 5 ELSE 0)

NeedsHelper(c) ==
    /\ Program(c).parses
    /\ Program(c).load = "ok"
    /\ HasFunction(c)
    /\ EntryBinding(c).fn.body = "helper"

\* a verify call of this run was given a candidate that adds the name
AddedInThisRun ==
    \E k \in 1..Len(vfyCalls) : "helper" \in AddsToBuiltins(vfyCalls[k])

\* once line 45 has run, the history holds the attempts of this run and
\* nothing else
HistoryOfThisRun ==
    pc # "start" =>
        /\ Len(history) <= Len(vfyCalls)
        /\ \A k \in 1..Len(history) :
              /\ history[k].attempt = k
              /\ history[k].code = vfyCalls[k]

\* the first generate call and the first analyze call of a run are given no
\* feedback
NoFeedbackAtStart ==
    /\ genCalls # <<>> => genCalls[1] = None
    /\ dbgCalls # <<>> => dbgCalls[1].previous_feedback = None

\* C33: runs on one system object are independent: each run starts with an
\* empty history and no feedback, and the history, the feedback given to the
\* generator and the result of a run hold and depend on nothing an earlier
\* run left: a run succeeds with a candidate that calls a name it does not
\* define only if a candidate of the same run provided the name.
C33_RunsIndependent ==
    /\ HistoryOfThisRun
    /\ NoFeedbackAtStart
    /\ (Done /\ "history" \in DOMAIN result) => result.history = history
    /\ (Done /\ result.success /\ NeedsHelper(result.code)) => AddedInThisRun

\* C38: every verify call loads its candidate into a fresh scope: nothing an
\* earlier candidate defined or changed is visible, so a candidate whose
\* entry function calls a name it does not define fails every test with an
\* error, whatever was verified before.
C38_FreshScopePerVerify ==
    \A k \in 1..Len(history) :
        NeedsHelper(history[k].code) =>
            \A i \in 1..Len(history[k].test_results) :
                history[k].test_results[i].status = "ERROR"

(***************************************************************************)
(* CodeVerifier.get_last_verification                                      *)
(***************************************************************************)
\* C34: after any sequence of verify calls, get_last_verification returns
\* the passed flag and the outcomes of the most recent verify call (in a
\* run, the call recorded by the last history entry).
C34_LastVerificationIsLatest ==
    (pc # "start" /\ history # <<>>) =>
        /\ last_verification.set
        /\ last_verification.passed = history[Len(history)].passed
        /\ last_verification.results = history[Len(history)].test_results

(***************************************************************************)
(* CodeVerifier._run_single_test: how often the entry function is invoked  *)
(***************************************************************************)
\* C35: for each test case the entry function is invoked at most once,
\* except that in the ambiguous-sequence case a second, single-argument
\* invocation happens only when the first call was rejected for its argument
\* count before the body ran; an error raised inside the body never causes a
\* second invocation.
C35_SecondCallOnlyAfterArityRejection ==
    \A k \in 1..Len(harness.log) :
        LET r == harness.log[k]
        IN  ProgramHasEntry =>
              \A i \in 1..Len(r.tests_before) :
                  LET inp == r.tests_before[i].input
                  IN  /\ Len(r.calls[i]) <= 2
                      /\ Len(r.calls[i]) = 2 =>
                            /\ AmbiguousCase(r, inp)
                            /\ UnpackRejected(r, inp)
                            /\ r.calls[i][2] = <<inp>>

(***************************************************************************)
(* CodeVerifier._run_single_test: the status after a normal return         *)
(***************************************************************************)
ReturnCase == unit.op = "run_single_test" /\ unit.done

\* C36: whenever the entry function returns normally for a test case, the
\* status of the outcome is PASS if the returned value matches the expected
\* value and FAIL otherwise; ERROR is never produced by the comparison of
\* the returned value.
C36_ReturnGivesPassOrFail ==
    ReturnCase =>
        /\ unit.out.status \in {"PASS", "FAIL"}
        /\ unit.out.status = "PASS" <=>
              values_match(unit.in.returned, unit.in.test.expected) = Matched(TRUE)

(***************************************************************************)
(* The feedback handed from the debugger to the generator                  *)
(***************************************************************************)
\* C37: on every attempt after the first the code generator takes its
\* fix-from-feedback path, never its initial-prompt path: the feedback
\* stored after a debug call is always a non-empty text, whether it came
\* from the debug service or from the local fallback.
C37_FixPathAfterFirstAttempt ==
    /\ \A k \in 1..Len(dbgReturns) :
          dbgReturns[k] # None /\ dbgReturns[k] # EmptyText
    /\ dbgReturns # <<>> =>
          debugger_feedback = dbgReturns[Len(dbgReturns)]
    /\ \A i \in 2..Len(genCalls) :
          /\ genCalls[i] = dbgReturns[i - 1]
          /\ PromptFor(genCalls[i]) = "fix"

C37_Witness ==
    /\ Len(genCalls) = 3
    /\ genCalls[2] \in ApiFeedback
    /\ genCalls[3] = "fb_local_syntax"
    /\ PromptFor(genCalls[1]) = "initial"

(***************************************************************************)
(* The error field of the history records                                  *)
(***************************************************************************)
\* the error summary "k/n tests failed"
TestsFailedText(k, n) == [kind |-> "TestsFailed", k |-> k, n |-> n]

\* C39: in every history record the error field is None exactly when passed
\* is true; when passed is false it holds the error summary returned by that
\* attempt's verification, and when tests were executed that summary is
\* "k/n tests failed" with k the number of non-PASS outcomes and n the
\* number of test cases.
C39_HistoryError ==
    pc # "start" =>
        /\ \A j \in 1..Len(history) :
              LET rec == history[j]
                  k == Cardinality({i \in 1..Len(rec.test_results) :
                                       rec.test_results[i].status # "PASS"})
              IN  /\ rec.error = NoError <=> rec.passed
                  /\ (~rec.passed /\ rec.test_results # <<>>) =>
                        rec.error = TestsFailedText(k, Len(test_cases))
                  /\ (~rec.passed /\ rec.test_results = <<>>) =>
                        rec.error.kind \in {"Syntax", "Execution", "NoFunction"}
        /\ (history # <<>> /\ ~history[Len(history)].passed
                /\ Len(history) = Len(vfyCalls)) =>
              history[Len(history)].error = error_msg

C39_Witness ==
    /\ Len(history) = 2
    /\ Len(test_cases) = 2
    /\ ~history[1].passed
    /\ Len(history[1].test_results) = 2
    /\ history[1].test_results[1].status = "ERROR"
    /\ history[1].test_results[2].status = "PASS"
    /\ history[1].error = TestsFailedText(1, 2)
    /\ ~history[2].passed
    /\ history[2].test_results = <<>>
    /\ history[2].error.kind = "Syntax"

====
